---- MODULE Spec2Model ----
(***************************************************************************)
(* The debug server of auxtools (debug_server/src/server.rs): the          *)
(* networking thread (ServerThread) that accepts one connection and turns  *)
(* its zero-delimited byte stream into Requests, and the main-thread       *)
(* Server that drains them in process() and in the blocking loop of        *)
(* handle_breakpoint().                                                    *)
(***************************************************************************)
EXTENDS Integers, Sequences, FiniteSets, TLC

(***************************************************************************)
(* Bounds of the model.                                                    *)
(***************************************************************************)
\* segments (messages or lone delimiters) the client writes in a session
MaxMsgs == 2
\* segments the client writes in the framing scenario
MaxFramingMsgs == 3
\* segments the client writes in the inspection scenarios
MaxInspectMsgs == 1
\* calls of handle_breakpoint
MaxTraps == 2
\* calls of handle_breakpoint in the inspection scenarios
MaxInspectTraps == 1
\* frames of a captured call stack
MaxStack == 5
\* instructions of a disassembly in the line resolver scenario
MaxInstrs == 3

\* size of the read buffer of ServerThread::run
BufSize == 4096
\* a limb of a u32: u32 values are kept as two 16-bit limbs, hi * 65536 + lo
Limb == 2^16

VARIABLES
    wire,          \* bytes the client has written and the thread has not read
    client_open,   \* the client has not closed its end
    sent,          \* history: the segments the client wrote, in order
    t_pc,          \* ServerThread: "accept", "run", "loop", "done"
    exit_reason,   \* why the thread ended: "none", "accept", "clone", "handoff",
                   \* "closed", "io", "decode", "send"
    queued_data,   \* ServerThread::run's queued_data
    forwarded,     \* history: every Request sent on the requests channel
    connection,    \* connection channel: number of stream handles in flight
    requests,      \* requests channel: the queue
    stream,        \* Server.stream: "None" or "Some"
    stacks,        \* Server.stacks: <<>> is None, <<s>> is Some(s)
    vm_pc,         \* main thread: "idle", "process", "breakpoint"; "dropped" once
                   \* the Server has been dropped
    panicked,      \* the main thread panicked inside the call vm_pc names
    should_pause,  \* process()'s local
    ret,           \* the last call of the Server to return, and what it returned
    out,           \* the responses written to the client's stream, in order
    call_recv,     \* history: requests the current (last) call took off the channel
    call_handled,  \* history: requests the current (last) call gave to handle_request
    last,          \* history: what the last handle_request call saw and answered
    traps,         \* number of handle_breakpoint calls so far
    dism,          \* the VM's procs: (path, override_id) -> its disassembly
    accepts,       \* history: calls of listener.accept()
    handed,        \* history: write handles sent on the connection channel
    installs,      \* history: times process() put a handle into Server.stream
    attempts       \* history: calls of send(), the attempts to write a response

vars == <<wire, client_open, sent, t_pc, exit_reason, queued_data, forwarded,
          connection, requests, stream, stacks, vm_pc, panicked, should_pause,
          ret, out, call_recv, call_handled, last, traps, dism,
          accepts, handed, installs, attempts>>

threadVars == <<t_pc, exit_reason, queued_data, forwarded, accepts, handed>>
clientVars == <<wire, client_open, sent>>
serverVars == <<stream, stacks, vm_pc, panicked, should_pause, ret, out,
                call_recv, call_handled, last, traps, dism, installs, attempts>>

Min(a, b) == IF a <= b THEN a ELSE b

(***************************************************************************)
(* Values of the protocol (server_types): Option, u32, Request.            *)
(***************************************************************************)
None == <<>>
Some(v) == <<v>>
IsSome(o) == o /= <<>>
Unwrap(o) == o[1]

\* a u32 as two limbs
U32(hi, lo) == [hi |-> hi, lo |-> lo]
U32Of(n) == U32(n \div Limb, n % Limb)
U32Max == U32(Limb - 1, Limb - 1)

ProcRef(path, override_id) == [path |-> path, override_id |-> override_id]

VarsArguments(frame) == [ref |-> "Arguments", frame |-> frame]
VarsLocals(frame) == [ref |-> "Locals", frame |-> frame]
VarsInternal(tag, data) == [ref |-> "Internal", tag |-> tag, data |-> data]
\* the handle of Value::globals(): its tag and data
VarsGlobals == [ref |-> "Internal", tag |-> "GlobalVars", data |-> 0]

BreakpointSet(proc, offset) == [type |-> "BreakpointSet", proc |-> proc, offset |-> offset]
BreakpointUnset(proc, offset) == [type |-> "BreakpointUnset", proc |-> proc, offset |-> offset]
LineNumber(proc, offset) == [type |-> "LineNumber", proc |-> proc, offset |-> offset]
Offset(proc, line) == [type |-> "Offset", proc |-> proc, line |-> line]
StackFrames(thread_id, start_frame, count) ==
    [type |-> "StackFrames", thread_id |-> thread_id,
     start_frame |-> start_frame, count |-> count]
Scopes(frame_id) == [type |-> "Scopes", frame_id |-> frame_id]
Variables(ref) == [type |-> "Variables", vars |-> ref]
Continue(kind) == [type |-> "Continue", kind |-> kind]
Pause == [type |-> "Pause"]

(***************************************************************************)
(* The wire format (serde_json::to_vec / from_slice of server_types).  A   *)
(* message is a sequence of non-zero bytes: a tag byte that names the      *)
(* variant, then one byte per field.  No proper prefix of a message, and   *)
(* no message followed by more bytes, decodes.                             *)
(***************************************************************************)
\* the u32 values that have an encoding in the model
U32Vals == <<U32Of(0), U32Of(1), U32Of(2), U32Of(4), U32Of(10), U32Max>>

KindVals == <<"Continue", "StepOver">>

\* the procs a message can name: two of the program and one the VM lacks
ProcVals == <<ProcRef("/proc/a", 0), ProcRef("/proc/b", 0), ProcRef("/proc/none", 0)>>

\* the variable references a message can carry: the scopes of frame 0, the
\* globals handle, the world (tag World, id 1) and a datum
RefVals ==
    <<VarsArguments(0), VarsLocals(0), VarsGlobals,
      VarsInternal("World", 1), VarsInternal("Datum", 1)>>

IndexIn(seq, v) == CHOOSE i \in 1..Len(seq) : seq[i] = v

OptU32Byte(o) == IF IsSome(o) THEN 1 + IndexIn(U32Vals, Unwrap(o)) ELSE 1
OptU32Of(b) == IF b = 1 THEN None ELSE Some(U32Vals[b - 1])
IsOptU32Byte(b) == b \in 1..(Len(U32Vals) + 1)

to_vec(r) ==
    CASE r.type = "BreakpointSet" -> <<1, IndexIn(ProcVals, r.proc), r.offset + 1>>
      [] r.type = "BreakpointUnset" -> <<2, IndexIn(ProcVals, r.proc), r.offset + 1>>
      [] r.type = "LineNumber" -> <<3, IndexIn(ProcVals, r.proc), r.offset + 1>>
      [] r.type = "Offset" -> <<4, IndexIn(ProcVals, r.proc), r.line + 1>>
      [] r.type = "Variables" -> <<7, IndexIn(RefVals, r.vars)>>
      [] r.type = "Pause" -> <<9, 1>>
      [] r.type = "Continue" -> <<8, IndexIn(KindVals, r.kind)>>
      [] r.type = "Scopes" -> <<6, r.frame_id + 1>>
      [] r.type = "StackFrames" ->
            <<5, r.thread_id + 1, OptU32Byte(r.start_frame), OptU32Byte(r.count)>>

Ok(v) == [ok |-> TRUE, v |-> v]
Err == [ok |-> FALSE]

from_slice(data) ==
    IF Len(data) = 0 THEN Err
    ELSE CASE data[1] \in 1..4 ->
                IF Len(data) = 3 /\ data[2] \in 1..Len(ProcVals) /\ data[3] >= 1
                THEN Ok(CASE data[1] = 1 -> BreakpointSet(ProcVals[data[2]], data[3] - 1)
                          [] data[1] = 2 -> BreakpointUnset(ProcVals[data[2]], data[3] - 1)
                          [] data[1] = 3 -> LineNumber(ProcVals[data[2]], data[3] - 1)
                          [] data[1] = 4 -> Offset(ProcVals[data[2]], data[3] - 1))
                ELSE Err
           [] data[1] = 7 ->
                IF Len(data) = 2 /\ data[2] \in 1..Len(RefVals)
                THEN Ok(Variables(RefVals[data[2]])) ELSE Err
           [] data[1] = 9 ->
                IF Len(data) = 2 /\ data[2] = 1 THEN Ok(Pause) ELSE Err
           [] data[1] = 8 ->
                IF Len(data) = 2 /\ data[2] \in 1..Len(KindVals)
                THEN Ok(Continue(KindVals[data[2]])) ELSE Err
           [] data[1] = 6 ->
                IF Len(data) = 2 /\ data[2] >= 1
                THEN Ok(Scopes(data[2] - 1)) ELSE Err
           [] data[1] = 5 ->
                IF Len(data) = 4 /\ data[2] >= 1
                   /\ IsOptU32Byte(data[3]) /\ IsOptU32Byte(data[4])
                THEN Ok(StackFrames(data[2] - 1, OptU32Of(data[3]), OptU32Of(data[4])))
                ELSE Err
           [] OTHER -> Err

(***************************************************************************)
(* ServerThread (the networking thread).                                   *)
(***************************************************************************)
\* queued_data.split(|x| *x == 0): the segments between the zero bytes
RECURSIVE SplitFrom(_, _)
SplitFrom(data, cur) ==
    IF data = <<>> THEN <<cur>>
    ELSE IF Head(data) = 0 THEN <<cur>> \o SplitFrom(Tail(data), <<>>)
    ELSE SplitFrom(Tail(data), Append(cur, Head(data)))

Split(data) == SplitFrom(data, <<>>)

\* ServerThread::handle_request on every segment in turn: what was sent on the
\* requests channel, and whether the loop went through without an error
RECURSIVE HandleSegments(_, _)
HandleSegments(segs, fwd) ==
    IF segs = <<>> THEN [fwd |-> fwd, ok |-> TRUE]
    ELSE IF Head(segs) = <<>> THEN HandleSegments(Tail(segs), fwd)
    ELSE LET request == from_slice(Head(segs))
         IN IF request.ok
            THEN HandleSegments(Tail(segs), Append(fwd, request.v))
            ELSE [fwd |-> fwd, ok |-> FALSE]

\* queued_data.iter().rposition(|x| *x == 0), 1-based; 0 when there is none
RPosition(data) ==
    IF \E i \in 1..Len(data) : data[i] = 0
    THEN CHOOSE i \in 1..Len(data) :
            data[i] = 0 /\ \A j \in (i + 1)..Len(data) : data[j] /= 0
    ELSE 0

\* queued_data.drain(..idx): the elements before idx go, the one at idx stays
DrainFinished(data) ==
    IF RPosition(data) = 0 THEN data
    ELSE SubSeq(data, RPosition(data), Len(data))

\* the same loop once the Server, and with it the receiver of the requests
\* channel, is gone: the first message ends it, by its decode error or by
\* the error of requests.send
RECURSIVE HandleSegmentsDropped(_)
HandleSegmentsDropped(segs) ==
    IF segs = <<>> THEN [fwd |-> <<>>, ok |-> TRUE, err |-> "none"]
    ELSE IF Head(segs) = <<>> THEN HandleSegmentsDropped(Tail(segs))
    ELSE [fwd |-> <<>>, ok |-> FALSE,
          err |-> IF from_slice(Head(segs)).ok THEN "send" ELSE "decode"]

\* start_thread: listener.accept()
Accept ==
    /\ t_pc = "accept"
    /\ accepts' = accepts + 1
    /\ \/ t_pc' = "run" /\ exit_reason' = exit_reason
       \/ t_pc' = "done" /\ exit_reason' = "accept"
    /\ UNCHANGED <<queued_data, forwarded, handed, connection, requests>>
    /\ UNCHANGED clientVars
    /\ UNCHANGED serverVars

\* a run that goes on to its read loop after the hand-off failed
AfterHandOffErr_Loop == "loop"

\* where run is after `Err(e) => { eprintln!(..); return; }` of the hand-off
AfterHandOffErr == "done"

\* run: the write handle goes to the Server over the connection channel;
\* the send fails when the Server, the receiver, has been dropped
HandOff ==
    /\ t_pc = "run"
    /\ \/ \* try_clone() fails and its unwrap() panics: the thread is gone
          /\ t_pc' = "done"
          /\ exit_reason' = "clone"
          /\ UNCHANGED <<connection, handed>>
       \/ IF vm_pc = "dropped"
          THEN /\ t_pc' = AfterHandOffErr
               /\ exit_reason' = "handoff"
               /\ UNCHANGED <<connection, handed>>
          ELSE /\ connection' = connection + 1
               /\ handed' = handed + 1
               /\ t_pc' = "loop"
               /\ UNCHANGED exit_reason
    /\ UNCHANGED <<queued_data, forwarded, accepts, requests>>
    /\ UNCHANGED clientVars
    /\ UNCHANGED serverVars

\* one turn of run's loop whose read returns n > 0 bytes
ReadData ==
    /\ t_pc = "loop"
    /\ wire /= <<>>
    /\ \E n \in 1..Min(Len(wire), BufSize) :
          LET data == queued_data \o SubSeq(wire, 1, n)
              res == IF vm_pc = "dropped"
                     THEN HandleSegmentsDropped(Split(data))
                     ELSE HandleSegments(Split(data), <<>>)
          IN /\ wire' = SubSeq(wire, n + 1, Len(wire))
             /\ requests' = requests \o res.fwd
             /\ forwarded' = forwarded \o res.fwd
             /\ IF res.ok
                THEN /\ queued_data' = DrainFinished(data)
                     /\ UNCHANGED <<t_pc, exit_reason>>
                ELSE /\ queued_data' = <<>>
                     /\ t_pc' = "done"
                     /\ exit_reason' = IF vm_pc = "dropped" THEN res.err ELSE "decode"
    /\ UNCHANGED <<client_open, sent, connection, accepts, handed>>
    /\ UNCHANGED serverVars

\* a turn whose read returns Ok(0): the client closed the stream
ReadClosed ==
    /\ t_pc = "loop"
    /\ wire = <<>>
    /\ ~client_open
    /\ t_pc' = "done"
    /\ exit_reason' = "closed"
    /\ queued_data' = <<>>
    /\ UNCHANGED <<forwarded, accepts, handed, connection, requests>>
    /\ UNCHANGED clientVars
    /\ UNCHANGED serverVars

\* a read error that also makes the Server forget its stream
ReadError_DropsSession ==
    /\ t_pc = "loop"
    /\ t_pc' = "done"
    /\ exit_reason' = "io"
    /\ queued_data' = <<>>
    /\ stream' = "None"
    /\ UNCHANGED <<forwarded, accepts, handed, connection, requests>>
    /\ UNCHANGED clientVars
    /\ UNCHANGED <<stacks, vm_pc, panicked, should_pause, ret, out, call_recv,
                   call_handled, last, traps, dism, installs, attempts>>

\* a turn whose read returns Err
ReadError ==
    /\ t_pc = "loop"
    /\ t_pc' = "done"
    /\ exit_reason' = "io"
    /\ queued_data' = <<>>
    /\ UNCHANGED <<forwarded, accepts, handed, connection, requests>>
    /\ UNCHANGED clientVars
    /\ UNCHANGED serverVars

(***************************************************************************)
(* The debug client at the other end of the stream.                        *)
(***************************************************************************)
\* the encodings of the requests of R
Encoded(R) == {to_vec(r) : r \in R}

\* the client writes one segment of Segs (a message, or nothing) and the
\* zero byte that ends it
ClientWrite(Segs, max) ==
    /\ client_open
    /\ Len(sent) < max
    /\ \E seg \in Segs :
          /\ wire' = wire \o seg \o <<0>>
          /\ sent' = Append(sent, seg)
    /\ UNCHANGED client_open
    /\ UNCHANGED threadVars
    /\ UNCHANGED <<connection, requests>>
    /\ UNCHANGED serverVars

\* a client that asks one thing: it writes one segment of Segs and its zero
\* byte, and closes its end
ClientQuery(Segs) ==
    /\ client_open
    /\ \E seg \in Segs :
          /\ wire' = wire \o seg \o <<0>>
          /\ sent' = Append(sent, seg)
    /\ client_open' = FALSE
    /\ UNCHANGED threadVars
    /\ UNCHANGED <<connection, requests>>
    /\ UNCHANGED serverVars

ClientClose ==
    /\ client_open
    /\ client_open' = FALSE
    /\ UNCHANGED <<wire, sent>>
    /\ UNCHANGED threadVars
    /\ UNCHANGED <<connection, requests>>
    /\ UNCHANGED serverVars

(***************************************************************************)
(* The VM as the Server sees it (dm): procs, their disassembly, and the    *)
(* call stack at a trap.                                                   *)
(***************************************************************************)
\* one disassembled instruction; dbg_line is Some(line) for Instruction::DbgLine
Instr(offset, dbg_line) == [offset |-> offset, dbg_line |-> dbg_line]

\* dm::Proc::find_override
find_override(proc) == IF proc \in DOMAIN dism THEN Some(proc) ELSE None

\* the scan of get_line_number over the disassembly
RECURSIVE ScanLine(_, _, _)
ScanLine(dis, offset, current_line_number) ==
    IF dis = <<>> THEN None
    ELSE LET line == IF IsSome(Head(dis).dbg_line)
                     THEN Head(dis).dbg_line
                     ELSE current_line_number
         IN IF Head(dis).offset = offset THEN line
            ELSE ScanLine(Tail(dis), offset, line)

\* a scan that tests the offset before it looks at the instruction
RECURSIVE ScanLineOffsetFirst(_, _, _)
ScanLineOffsetFirst(dis, offset, current_line_number) ==
    IF dis = <<>> THEN None
    ELSE IF Head(dis).offset = offset THEN current_line_number
    ELSE ScanLineOffsetFirst(Tail(dis), offset,
                             IF IsSome(Head(dis).dbg_line)
                             THEN Head(dis).dbg_line
                             ELSE current_line_number)

get_line_number_offset_first(proc, offset) ==
    IF IsSome(find_override(proc))
    THEN ScanLineOffsetFirst(dism[proc], offset, None)
    ELSE None

get_line_number(proc, offset) ==
    IF IsSome(find_override(proc))
    THEN ScanLine(dism[proc], offset, None)
    ELSE None

\* hook_instruction and unhook_instruction: fallible, the result is the
\* hooking layer's
HookResults == {"Ok", "Err"}

\* a call of the hooking layer made while a request was handled
HookCall(fn, proc, offset, result) ==
    [fn |-> fn, proc |-> proc, offset |-> offset, result |-> result]

\* reading the "vars" list of a VM value and each named variable; Err when
\* the value has no such list.  The world (tag World, id 1) is read through
\* the GlobalVars handle instead.
value_to_variables(tag, data) ==
    CASE tag = "World" /\ data = 1 -> Ok(<<"world_time">>)
      [] tag = "Datum" -> Ok(<<"name", "x">>)
      [] OTHER -> Err

\* a frame of CallStacks.active
Frame(path, offset, args, locals) ==
    [proc |-> path, offset |-> offset, args |-> args, locals |-> locals]

(***************************************************************************)
(* Responses (server_types::Response).                                     *)
(***************************************************************************)
RStackFrames(frames, total_count) ==
    [type |-> "StackFrames", frames |-> frames, total_count |-> total_count]
RScopes(arguments, locals, globals) ==
    [type |-> "Scopes", arguments |-> arguments, locals |-> locals, globals |-> globals]
RBreakpointHit(reason) == [type |-> "BreakpointHit", reason |-> reason]
RBreakpointSet(result) == [type |-> "BreakpointSet", result |-> result]
RBreakpointUnset(success) == [type |-> "BreakpointUnset", success |-> success]
RLineNumber(line) == [type |-> "LineNumber", line |-> line]
ROffset(offset) == [type |-> "Offset", offset |-> offset]
RVariables(variables_list) == [type |-> "Variables", vars |-> variables_list]

\* BreakpointSetResult
Success(line) == [result |-> "Success", line |-> line]
Failed == [result |-> "Failed"]

\* value_to_variable
Variable(name) == [name |-> name, kind |-> "TODO", variables |-> None]

StackFrame(proc, offset, line) ==
    [instruction |-> [proc |-> proc, offset |-> offset], line |-> line]


(***************************************************************************)
(* u32 arithmetic on limbs.                                                *)
(***************************************************************************)
LtU32(a, b) == a.hi < b.hi \/ (a.hi = b.hi /\ a.lo < b.lo)

\* a + b in u32: the wrapped sum, and whether the addition overflows
AddU32(a, b) ==
    LET lo == a.lo + b.lo
        hi == a.hi + b.hi + (lo \div Limb)
    IN [sum |-> U32(hi % Limb, lo % Limb), overflow |-> hi >= Limb]

unwrap_or(o, default) == IF IsSome(o) THEN Unwrap(o) ELSE default

(***************************************************************************)
(* Server::handle_request.  What a request can come to: a panic, or an     *)
(* optional response and the returned flag.                                *)
(***************************************************************************)
Panics == [panic |-> TRUE, response |-> None, pause |-> FALSE, calls |-> <<>>]
Replies(response) ==
    [panic |-> FALSE, response |-> Some(response), pause |-> FALSE, calls |-> <<>>]
Returns(pause) == [panic |-> FALSE, response |-> None, pause |-> pause, calls |-> <<>>]
\* a response sent after calls of the hooking layer
RepliesAfter(calls, response) ==
    [panic |-> FALSE, response |-> Some(response), pause |-> FALSE, calls |-> calls]

\* a BreakpointSet arm that does not look at the result of hook_instruction
breakpoint_set_ignores_err(request) ==
    LET line == get_line_number(request.proc, request.offset)
    IN IF IsSome(find_override(request.proc))
       THEN {RepliesAfter(
                <<HookCall("hook_instruction", request.proc, request.offset, r)>>,
                RBreakpointSet(Success(line)))
             : r \in HookResults}
       ELSE {Replies(RBreakpointSet(Failed))}

\* the BreakpointSet arm
breakpoint_set(request) ==
    LET line == get_line_number(request.proc, request.offset)
    IN IF IsSome(find_override(request.proc))
       THEN {RepliesAfter(
                <<HookCall("hook_instruction", request.proc, request.offset, r)>>,
                RBreakpointSet(IF r = "Ok" THEN Success(line) ELSE Failed))
             : r \in HookResults}
       ELSE {Replies(RBreakpointSet(Failed))}

\* the BreakpointUnset arm
breakpoint_unset(request) ==
    IF IsSome(find_override(request.proc))
    THEN {RepliesAfter(
             <<HookCall("unhook_instruction", request.proc, request.offset, r)>>,
             RBreakpointUnset(r = "Ok"))
          : r \in HookResults}
    ELSE {Replies(RBreakpointUnset(FALSE))}

\* the LineNumber arm
line_number(request) ==
    {Replies(RLineNumber(get_line_number(request.proc, request.offset)))}

\* the scan of the Offset arm over the disassembly
RECURSIVE ScanOffset(_, _, _)
ScanOffset(dis, line, at_offset) ==
    IF dis = <<>> THEN None
    ELSE IF at_offset THEN Some(Head(dis).offset)
    ELSE ScanOffset(Tail(dis), line, Head(dis).dbg_line = Some(line))

\* a scan that answers with the offset of the annotation itself
RECURSIVE ScanOffsetOfAnnotation(_, _)
ScanOffsetOfAnnotation(dis, line) ==
    IF dis = <<>> THEN None
    ELSE IF Head(dis).dbg_line = Some(line) THEN Some(Head(dis).offset)
    ELSE ScanOffsetOfAnnotation(Tail(dis), line)

offset_arm_of_annotation(request) ==
    IF IsSome(find_override(request.proc))
    THEN {Replies(ROffset(ScanOffsetOfAnnotation(dism[request.proc], request.line)))}
    ELSE {Replies(ROffset(None))}

\* the Offset arm
offset_arm(request) ==
    IF IsSome(find_override(request.proc))
    THEN {Replies(ROffset(ScanOffset(dism[request.proc], request.line, FALSE)))}
    ELSE {Replies(ROffset(None))}

\* the Variables arm
variables(request) ==
    IF request.vars.ref = "Internal"
    THEN LET res == value_to_variables(request.vars.tag, request.vars.data)
         IN IF res.ok
            THEN {Replies(RVariables([i \in 1..Len(res.v) |-> Variable(res.v[i])]))}
            ELSE {Replies(RVariables(<<>>))}
    ELSE {Replies(RVariables(<<>>))}

\* the loop `for i in start_frame..end_frame` of the StackFrames arm
RECURSIVE stack_frames_loop(_, _, _)
stack_frames_loop(stack, i, end_frame) ==
    IF ~LtU32(i, end_frame) THEN <<>>
    ELSE IF i.hi > 0 \/ i.lo >= Len(stack) THEN <<>>
    ELSE LET frame == stack[i.lo + 1]
             proc_ref == ProcRef(frame.proc, 0)
         IN <<StackFrame(proc_ref, frame.offset,
                         get_line_number(proc_ref, frame.offset))>>
            \o stack_frames_loop(stack, U32(0, i.lo + 1), end_frame)

\* the StackFrames arm
stack_frames(request) ==
    IF request.thread_id /= 0 THEN {Panics}
    ELSE IF IsSome(stacks)
    THEN LET stack == Unwrap(stacks).active
             start_frame == unwrap_or(request.start_frame, U32Of(0))
             end_frame == AddU32(start_frame, unwrap_or(request.count, U32Of(Len(stack))))
             reply == Replies(RStackFrames(
                          stack_frames_loop(stack, start_frame, end_frame.sum),
                          U32Of(Len(stack))))
         IN \* an overflowing addition panics in a build with overflow checks
            \* and wraps in one without
            IF end_frame.overflow THEN {Panics, reply} ELSE {reply}
    ELSE {Replies(RStackFrames(<<>>, U32Of(0)))}

\* a Scopes arm that tests frame.args where it should test frame.locals
scopes_locals_from_args(request) ==
    IF IsSome(stacks)
    THEN LET active == Unwrap(stacks).active
             frame_id == request.frame_id
         IN IF frame_id < Len(active)
            THEN LET frame == active[frame_id + 1]
                 IN {Replies(RScopes(
                        IF frame.args /= <<>>
                        THEN Some(VarsArguments(frame_id % Limb)) ELSE None,
                        IF frame.args /= <<>>
                        THEN Some(VarsLocals(frame_id % Limb)) ELSE None,
                        Some(VarsGlobals)))}
            ELSE {Replies(RScopes(None, None, None))}
    ELSE {Replies(RScopes(None, None, None))}

\* the Scopes arm
scopes(request) ==
    IF IsSome(stacks)
    THEN LET active == Unwrap(stacks).active
             frame_id == request.frame_id
         IN IF frame_id < Len(active)
            THEN LET frame == active[frame_id + 1]
                 IN {Replies(RScopes(
                        IF frame.args /= <<>>
                        THEN Some(VarsArguments(frame_id % Limb)) ELSE None,
                        IF frame.locals /= <<>>
                        THEN Some(VarsLocals(frame_id % Limb)) ELSE None,
                        Some(VarsGlobals)))}
            ELSE {Replies(RScopes(None, None, None))}
    ELSE {Replies(RScopes(None, None, None))}

\* a Continue arm that asks for a pause
continue_arm_pauses == {Returns(TRUE)}

\* the Continue arm: a warning, no action
continue_arm == {Returns(FALSE)}

\* a Pause arm that falls through to the final `false`
pause_arm_false == {Returns(FALSE)}

\* the Pause arm
pause_arm == {Returns(TRUE)}

Outcomes(request) ==
    CASE request.type = "BreakpointSet" -> breakpoint_set(request)
      [] request.type = "BreakpointUnset" -> breakpoint_unset(request)
      [] request.type = "LineNumber" -> line_number(request)
      [] request.type = "Offset" -> offset_arm(request)
      [] request.type = "Variables" -> variables(request)
      [] request.type = "StackFrames" -> stack_frames(request)
      [] request.type = "Scopes" -> scopes(request)
      [] request.type = "Continue" -> continue_arm
      [] request.type = "Pause" -> pause_arm

\* a send_or_disconnect without the test of self.stream.is_none(): it tries
\* to write whether or not there is a stream
send_or_disconnect_unguarded(response) ==
    /\ attempts' = attempts + 1
    /\ IF stream = "None"
       THEN UNCHANGED <<stream, out>>
       ELSE \/ /\ out' = Append(out, response)
               /\ UNCHANGED stream
            \/ /\ stream' = "None"
               /\ UNCHANGED out

\* a send_or_disconnect that forgets the stream after every write
send_or_disconnect_forgets(response) ==
    IF stream = "None"
    THEN UNCHANGED <<stream, out, attempts>>
    ELSE /\ attempts' = attempts + 1
         /\ stream' = "None"
         /\ \/ out' = Append(out, response)
            \/ UNCHANGED out

\* send_or_disconnect and send: the write may fail, and then the stream goes
send_or_disconnect(response) ==
    IF stream = "None"
    THEN UNCHANGED <<stream, out, attempts>>
    ELSE /\ attempts' = attempts + 1
         /\ \/ /\ out' = Append(out, response)
               /\ UNCHANGED stream
            \/ /\ stream' = "None"
               /\ UNCHANGED out

\* handle_request(request) returning `result`
handle_request(request, result) ==
    \E o \in Outcomes(request) :
        /\ result = o.pause
        /\ panicked' = o.panic
        /\ IF IsSome(o.response)
           THEN send_or_disconnect(Unwrap(o.response))
           ELSE UNCHANGED <<stream, out, attempts>>
        /\ call_handled' = Append(call_handled, request)
        /\ last' = Some([request |-> request, stacks |-> stacks,
                         panic |-> o.panic, response |-> o.response,
                         calls |-> o.calls])

(***************************************************************************)
(* Server::handle_breakpoint.                                              *)
(***************************************************************************)
\* entry: the stacks are cached, BreakpointHit goes out, the loop begins.
\* S is the set of call stacks the VM may be in at the trap.
Trap(S, Reasons, max) ==
    /\ vm_pc = "idle"
    /\ ~panicked
    /\ traps < max
    /\ traps' = traps + 1
    /\ \E cs \in S : stacks' = Some(cs)
    /\ \E reason \in Reasons : send_or_disconnect(RBreakpointHit(reason))
    /\ vm_pc' = "breakpoint"
    /\ call_recv' = <<>>
    /\ call_handled' = <<>>
    /\ UNCHANGED <<panicked, should_pause, ret, last, dism, installs>>
    /\ UNCHANGED <<connection, requests>>
    /\ UNCHANGED threadVars
    /\ UNCHANGED clientVars

\* a loop that returns the default kind whatever the request carries
ContinueResult_Default(request) == "Continue"

\* what the loop returns for a hijacked Continue request
ContinueResult(request) == request.kind

\* a return that leaves the cached stacks in place
StacksOnReturn_Kept == stacks

\* Server.stacks when handle_breakpoint returns
StacksOnReturn == None

\* a loop that, on Continue, throws away what is queued behind it
BreakpointRecv_DrainsOnContinue ==
    /\ vm_pc = "breakpoint"
    /\ ~panicked
    /\ requests /= <<>>
    /\ call_recv' = Append(call_recv, Head(requests))
    /\ IF Head(requests).type = "Continue"
       THEN /\ requests' = <<>>
            /\ stacks' = StacksOnReturn
            /\ ret' = Some([op |-> "handle_breakpoint",
                            kind |-> ContinueResult(Head(requests))])
            /\ vm_pc' = "idle"
            /\ UNCHANGED <<stream, out, attempts, panicked, call_handled, last>>
       ELSE /\ requests' = Tail(requests)
            /\ \E result \in BOOLEAN : handle_request(Head(requests), result)
            /\ UNCHANGED <<stacks, ret, vm_pc>>
    /\ UNCHANGED <<should_pause, traps, dism, installs, connection>>
    /\ UNCHANGED threadVars
    /\ UNCHANGED clientVars

\* one turn of `while let Ok(request) = self.requests.recv()` with a request
BreakpointRecv ==
    /\ vm_pc = "breakpoint"
    /\ ~panicked
    /\ requests /= <<>>
    /\ requests' = Tail(requests)
    /\ call_recv' = Append(call_recv, Head(requests))
    /\ IF Head(requests).type = "Continue"
       THEN /\ stacks' = StacksOnReturn
            /\ ret' = Some([op |-> "handle_breakpoint",
                            kind |-> ContinueResult(Head(requests))])
            /\ vm_pc' = "idle"
            /\ UNCHANGED <<stream, out, attempts, panicked, call_handled, last>>
       ELSE /\ \E result \in BOOLEAN : handle_request(Head(requests), result)
            /\ UNCHANGED <<stacks, ret, vm_pc>>
    /\ UNCHANGED <<should_pause, traps, dism, installs, connection>>
    /\ UNCHANGED threadVars
    /\ UNCHANGED clientVars

\* recv() fails: the channel is empty and its sender, the thread, is gone
BreakpointDisconnected ==
    /\ vm_pc = "breakpoint"
    /\ ~panicked
    /\ requests = <<>>
    /\ t_pc = "done"
    /\ stacks' = StacksOnReturn
    /\ ret' = Some([op |-> "handle_breakpoint", kind |-> "Continue"])
    /\ vm_pc' = "idle"
    /\ UNCHANGED <<stream, out, panicked, should_pause, call_recv, call_handled,
                   last, traps, dism, installs, attempts>>
    /\ UNCHANGED <<connection, requests>>
    /\ UNCHANGED threadVars
    /\ UNCHANGED clientVars

(***************************************************************************)
(* Server::process.                                                        *)
(***************************************************************************)
\* entry: without a stream, take one from the connection channel or return
ProcessCall ==
    /\ vm_pc = "idle"
    /\ ~panicked
    /\ call_recv' = <<>>
    /\ call_handled' = <<>>
    /\ IF stream = "None" /\ connection = 0
       THEN /\ ret' = Some([op |-> "process", pause |-> FALSE])
            /\ UNCHANGED <<stream, connection, installs, vm_pc, should_pause>>
       ELSE /\ stream' = "Some"
            /\ connection' = IF stream = "None" THEN connection - 1 ELSE connection
            /\ installs' = IF stream = "None" THEN installs + 1 ELSE installs
            /\ should_pause' = FALSE
            /\ vm_pc' = "process"
            /\ UNCHANGED ret
    /\ UNCHANGED <<stacks, panicked, out, attempts, last, traps, dism, requests>>
    /\ UNCHANGED threadVars
    /\ UNCHANGED clientVars

\* should_pause after a request whose handle_request returned `result`
ShouldPause(before, result) == before \/ result

\* one turn of `while let Ok(request) = self.requests.try_recv()`;
\* `should_pause || self.handle_request(request)` calls handle_request only
\* while should_pause is false
ProcessRecv ==
    /\ vm_pc = "process"
    /\ ~panicked
    /\ requests /= <<>>
    /\ requests' = Tail(requests)
    /\ call_recv' = Append(call_recv, Head(requests))
    /\ IF should_pause
       THEN UNCHANGED <<should_pause, stream, out, attempts, panicked,
                        call_handled, last>>
       ELSE \E result \in BOOLEAN :
               /\ handle_request(Head(requests), result)
               /\ should_pause' = ShouldPause(should_pause, result)
    /\ UNCHANGED <<stacks, vm_pc, ret, traps, dism, installs, connection>>
    /\ UNCHANGED threadVars
    /\ UNCHANGED clientVars

\* try_recv() fails: process returns should_pause
ProcessReturn ==
    /\ vm_pc = "process"
    /\ ~panicked
    /\ requests = <<>>
    /\ ret' = Some([op |-> "process", pause |-> should_pause])
    /\ vm_pc' = "idle"
    /\ UNCHANGED <<stream, stacks, panicked, should_pause, out, call_recv,
                   call_handled, last, traps, dism, installs, attempts>>
    /\ UNCHANGED <<connection, requests>>
    /\ UNCHANGED threadVars
    /\ UNCHANGED clientVars

(***************************************************************************)
(* The end of the Server.                                                  *)
(***************************************************************************)
\* the host drops the Server between two calls: the receivers of both
\* channels go, with what is queued in them, and so does the write handle
Drop ==
    /\ vm_pc = "idle"
    /\ ~panicked
    /\ vm_pc' = "dropped"
    /\ stream' = "None"
    /\ connection' = 0
    /\ requests' = <<>>
    /\ UNCHANGED <<stacks, panicked, should_pause, ret, out, call_recv,
                   call_handled, last, traps, dism, installs, attempts>>
    /\ UNCHANGED threadVars
    /\ UNCHANGED clientVars

(***************************************************************************)
(* The scenarios.                                                          *)
(***************************************************************************)
\* a small program: /proc/a has lines 10 and 11, /proc/b has no line marks
Program ==
    (ProcRef("/proc/a", 0) :>
        <<Instr(0, Some(10)), Instr(2, None), Instr(3, Some(11)), Instr(5, None)>>)
    @@ (ProcRef("/proc/b", 0) :> <<Instr(0, None), Instr(1, None)>>)

\* Server::listen: both channels empty, no stream, no stacks, the thread
\* started; P is the program the VM runs
InitProgram(P) ==
    /\ wire = <<>>
    /\ client_open = TRUE
    /\ sent = <<>>
    /\ t_pc = "accept"
    /\ exit_reason = "none"
    /\ queued_data = <<>>
    /\ forwarded = <<>>
    /\ connection = 0
    /\ requests = <<>>
    /\ stream = "None"
    /\ stacks = None
    /\ vm_pc = "idle"
    /\ panicked = FALSE
    /\ should_pause = FALSE
    /\ ret = None
    /\ out = <<>>
    /\ call_recv = <<>>
    /\ call_handled = <<>>
    /\ last = None
    /\ traps = 0
    /\ dism = P
    /\ accepts = 0
    /\ handed = 0
    /\ installs = 0
    /\ attempts = 0

Init == InitProgram(Program)

ThreadStep == Accept \/ HandOff \/ ReadData \/ ReadClosed \/ ReadError

ServerStep == BreakpointRecv \/ BreakpointDisconnected
              \/ ProcessCall \/ ProcessRecv \/ ProcessReturn

\* a session: a client that pauses, inspects and continues
SessionRequests ==
    {Pause, Continue("Continue"), Continue("StepOver"),
     StackFrames(1, None, None), Scopes(0)}

SessionStacks ==
    {[active |-> <<Frame("/proc/a", 2, <<"x">>, <<>>)>>],
     [active |-> <<Frame("/proc/b", 1, <<>>, <<"i">>), Frame("/proc/a", 5, <<>>, <<>>)>>]}

Next ==
    \/ ClientWrite(Encoded(SessionRequests), MaxMsgs)
    \/ ClientClose
    \/ ThreadStep
    \/ Trap(SessionStacks, {"Breakpoint"}, MaxTraps)
    \/ ServerStep

Spec == Init /\ [][Next]_vars

\* inspection of the call stack: StackFrames requests with every start_frame
\* and count of the model
FramesRequests ==
    {StackFrames(0, s, c) : s, c \in {None} \cup {Some(U32Vals[i]) : i \in 1..Len(U32Vals)}}

\* inspection of a frame: Scopes requests for every index of the longest
\* stack, and one past it
ScopesRequests == {Scopes(f) : f \in 0..MaxStack}

\* frame i of a stack has arguments iff i is odd and locals iff i \div 2 is
\* odd, so that frames 0..3 show the four combinations
ShapedFrame(i) ==
    Frame(IF i % 2 = 0 THEN "/proc/a" ELSE "/proc/b", i,
          IF i % 2 = 1 THEN <<"arg">> ELSE <<>>,
          IF (i \div 2) % 2 = 1 THEN <<"local">> ELSE <<>>)

InspectStacks ==
    {[active |-> [i \in 1..n |-> ShapedFrame(i - 1)]] : n \in 1..MaxStack}

NextFrames ==
    \/ ClientWrite(Encoded(FramesRequests), MaxInspectMsgs)
    \/ ClientClose
    \/ ThreadStep
    \/ Trap(InspectStacks, {"Breakpoint"}, MaxInspectTraps)
    \/ ServerStep

SpecFrames == Init /\ [][NextFrames]_vars

NextScopes ==
    \/ ClientWrite(Encoded(ScopesRequests), MaxInspectMsgs)
    \/ ClientClose
    \/ ThreadStep
    \/ Trap(InspectStacks, {"Breakpoint"}, MaxInspectTraps)
    \/ ServerStep

SpecScopes == Init /\ [][NextScopes]_vars

\* setting breakpoints: on the procs of the program and on one the VM lacks,
\* at an annotated offset, a plain one and none of the proc
BreakpointRequests ==
    {BreakpointSet(ProcVals[i], o) : i \in 1..Len(ProcVals), o \in {0, 2, 9}}

NextBreakpoints ==
    \/ ClientWrite(Encoded(BreakpointRequests), MaxInspectMsgs)
    \/ ClientClose
    \/ ThreadStep
    \/ Trap(SessionStacks, {"Breakpoint"}, MaxInspectTraps)
    \/ ServerStep

SpecBreakpoints == Init /\ [][NextBreakpoints]_vars

\* the line resolver: /proc/a is any disassembly of up to MaxInstrs
\* instructions, two bytes each, every one of them a plain instruction or a
\* DbgLine of line 10 or 11; the client asks for the line of every offset up
\* to the end of the longest disassembly, or for the offset of line 10, 11
\* or 12, of /proc/a or of a proc the VM lacks; no trap fires
DbgLines == {None, Some(10), Some(11)}

Disassembly(ls) == [i \in 1..Len(ls) |-> Instr(2 * (i - 1), ls[i])]

ResolverPrograms ==
    {ProcRef("/proc/a", 0) :> Disassembly(ls) :
        ls \in UNION {[1..n -> DbgLines] : n \in 0..MaxInstrs}}

ResolverRequests ==
    {LineNumber(ProcRef("/proc/a", 0), x) : x \in 0..(2 * MaxInstrs)}
    \cup {Offset(ProcRef("/proc/a", 0), l) : l \in {10, 11, 12}}
    \cup {LineNumber(ProcRef("/proc/none", 0), 0), Offset(ProcRef("/proc/none", 0), 10)}

InitResolver == \E P \in ResolverPrograms : InitProgram(P)

NextResolver ==
    \/ ClientQuery(Encoded(ResolverRequests))
    \/ ThreadStep
    \/ ProcessCall
    \/ ProcessRecv
    \/ ProcessReturn

SpecResolver == InitResolver /\ [][NextResolver]_vars

\* the lifetime of the connection: a session that the host may end by
\* dropping the Server, before or after the client connects
LifetimeRequests == {Pause, Continue("Continue")}

NextLifetime ==
    \/ ClientWrite(Encoded(LifetimeRequests), MaxMsgs)
    \/ ClientClose
    \/ ThreadStep
    \/ Trap(SessionStacks, {"Breakpoint"}, MaxTraps)
    \/ ServerStep
    \/ Drop

SpecLifetime == Init /\ [][NextLifetime]_vars

\* the protocol: a client that sends requests of every variant
ProtocolRequests ==
    {BreakpointSet(ProcRef("/proc/a", 0), 2),
     BreakpointUnset(ProcRef("/proc/a", 0), 2),
     LineNumber(ProcRef("/proc/a", 0), 2),
     Offset(ProcRef("/proc/a", 0), 10),
     StackFrames(0, None, None),
     StackFrames(1, None, None),
     Scopes(0),
     Variables(VarsInternal("Datum", 1)),
     Variables(VarsArguments(0)),
     Continue("Continue"),
     Pause}

NextProtocol ==
    \/ ClientWrite(Encoded(ProtocolRequests), MaxMsgs)
    \/ ClientClose
    \/ ThreadStep
    \/ Trap(SessionStacks, {"Breakpoint"}, MaxTraps)
    \/ ServerStep

SpecProtocol == Init /\ [][NextProtocol]_vars

\* the main thread's scheduling: a recv() that can return does return, and
\* the host keeps calling process() and lets it run
Fairness ==
    /\ WF_vars(BreakpointRecv)
    /\ WF_vars(BreakpointDisconnected)
    /\ WF_vars(ProcessCall)
    /\ WF_vars(ProcessRecv)
    /\ WF_vars(ProcessReturn)

FairSpec == Init /\ [][Next]_vars /\ Fairness

\* framing: the client and the networking thread alone; messages of two and
\* of four bytes, and lone delimiters
FramingRequests ==
    {Pause, Continue("StepOver"), StackFrames(0, Some(U32Of(1)), None)}

NextFraming ==
    \/ ClientWrite(Encoded(FramingRequests) \cup {<<>>}, MaxFramingMsgs)
    \/ ClientClose
    \/ ThreadStep

SpecFraming == Init /\ [][NextFraming]_vars

(***************************************************************************)
(* Properties.                                                             *)
(***************************************************************************)
IsPrefix(s, t) == Len(s) <= Len(t) /\ SubSeq(t, 1, Len(s)) = s

\* the Requests of the non-empty segments of segs, in order
RECURSIVE RequestsOf(_)
RequestsOf(segs) ==
    IF segs = <<>> THEN <<>>
    ELSE IF Head(segs) = <<>> THEN RequestsOf(Tail(segs))
    ELSE <<from_slice(Head(segs)).v>> \o RequestsOf(Tail(segs))

\* C1: whatever the read boundaries, the thread forwards exactly one Request
\* per non-empty segment the client wrote, in order: what it has forwarded is
\* always a prefix of the client's requests (nothing twice, nothing out of
\* order), no well-formed message makes it give up (nothing lost), and once
\* it has read all that was written it has forwarded all of it.
C1_Framing ==
    /\ IsPrefix(forwarded, RequestsOf(sent))
    /\ exit_reason /= "decode"
    /\ (wire = <<>> /\ t_pc = "loop") => forwarded = RequestsOf(sent)

HasPause(reqs) == \E i \in 1..Len(reqs) : reqs[i].type = "Pause"
HasContinue(reqs) == \E i \in 1..Len(reqs) : reqs[i].type = "Continue"
\* the last call to finish was handle_breakpoint, and returned kind
BreakpointReturned(kind) == ret = Some([op |-> "handle_breakpoint", kind |-> kind])
\* the last call to finish was process(), and returned pause
ProcessReturned(pause) == ret = Some([op |-> "process", pause |-> pause])

\* C2: Server.stacks is Some exactly while the main thread is inside
\* handle_breakpoint, between its entry and its return; process() never
\* sets it.
C2_StacksIffInBreakpoint == IsSome(stacks) <=> vm_pc = "breakpoint"

\* a pause that a Continue{StepOver} has ended, the stacks gone again
C2_Witness ==
    /\ vm_pc = "idle"
    /\ BreakpointReturned("StepOver")
    /\ stacks = None
    /\ traps > 0

\* C3: while the requests channel is open, handle_breakpoint returns only
\* in the step that takes a Continue off the channel, the first it takes,
\* and returns that request's kind; every other request it takes goes to
\* handle_request and the thread stays inside handle_breakpoint.
C3_ReturnsOnContinueOnly ==
    [][vm_pc = "breakpoint" =>
        /\ (vm_pc' = "idle" /\ ~(requests = <<>> /\ t_pc = "done")) =>
              /\ requests /= <<>>
              /\ Head(requests).type = "Continue"
              /\ requests' = Tail(requests)
              /\ ~HasContinue(call_recv)
              /\ ret' = Some([op |-> "handle_breakpoint", kind |-> Head(requests).kind])
        /\ (requests /= <<>> /\ requests' = Tail(requests)
            /\ Head(requests).type /= "Continue") =>
              /\ vm_pc' = "breakpoint"
              /\ call_handled' = Append(call_handled, Head(requests))
              /\ ret' = ret]_vars

\* a pause in which a Pause request was handled before Continue{StepOver}
\* ended it
C3_Witness ==
    /\ vm_pc = "idle"
    /\ BreakpointReturned("StepOver")
    /\ call_recv = <<Pause, Continue("StepOver")>>
    /\ call_handled = <<Pause>>

\* C4: once the connection thread has ended while the main thread is inside
\* handle_breakpoint with no Continue queued, handle_breakpoint eventually
\* returns ContinueKind::Continue with the stacks discarded.
C4_DisconnectEndsPause ==
    (t_pc = "done" /\ vm_pc = "breakpoint" /\ ~HasContinue(requests))
        ~> (vm_pc = "idle" /\ BreakpointReturned("Continue")
            /\ stacks = None)

\* C5: every request a process() call takes off the channel is given to
\* handle_request, in order.
C5_DrainedAreHandled == vm_pc = "process" => call_handled = call_recv

\* C6: process() returns true exactly when one of the requests it took off
\* the channel in that call was a Pause; false when it took none, and when
\* there was no session.
C6_TrueIffPauseDrained ==
    (vm_pc = "idle" /\ (ProcessReturned(TRUE) \/ ProcessReturned(FALSE)))
        => ProcessReturned(HasPause(call_recv))

\* a process() call that drained a Pause and another request and returned
\* true
C6_Witness ==
    /\ vm_pc = "idle"
    /\ ProcessReturned(TRUE)
    /\ Len(call_recv) = 2
    /\ HasPause(call_recv)

\* C7: a Pause request on the requests channel is eventually observed by a
\* process() call that returns true, unless a trap takes the main thread
\* into handle_breakpoint first (or the thread panics): also after a failed
\* write has dropped the session.
C7_PauseObserved ==
    HasPause(requests)
        ~> \/ (vm_pc = "idle" /\ ProcessReturned(TRUE) /\ HasPause(call_recv))
           \/ vm_pc = "breakpoint"
           \/ panicked

\* C8: no request makes the main thread panic.
C8_NeverPanics == ~panicked

\* min(u, n) for a u32 u and a stack length n
ClipToLen(u, n) == IF u.hi > 0 \/ u.lo > n THEN n ELSE u.lo

\* the frames of stack at indices [min(s, n), min(s + c, n)), s + c taken in
\* the integers, as StackFrames responses carry them
FramesBetween(stack, s, c) ==
    LET n == Len(stack)
        lo == ClipToLen(s, n)
        hi == IF s.hi > 0 \/ c.hi > 0 THEN n ELSE Min(s.lo + c.lo, n)
    IN [i \in 1..(hi - lo) |->
            StackFrame(ProcRef(stack[lo + i].proc, 0), stack[lo + i].offset,
                       get_line_number(ProcRef(stack[lo + i].proc, 0),
                                       stack[lo + i].offset))]

\* C9: a StackFrames request with thread_id 0 is answered, during a pause
\* with a stack of n frames, with the frames at [min(s, n), min(s + c, n))
\* and total_count n, where s is start_frame or 0 and c is count or the
\* number of frames from s on; outside a pause with no frames and
\* total_count 0.
C9_Pagination ==
    (IsSome(last) /\ Unwrap(last).request.type = "StackFrames")
        => LET l == Unwrap(last)
               stack == Unwrap(l.stacks).active
               s == unwrap_or(l.request.start_frame, U32Of(0))
               c == unwrap_or(l.request.count,
                              U32Of(Len(stack) - ClipToLen(s, Len(stack))))
           IN l.request.thread_id = 0
                => /\ ~l.panic
                   /\ l.response =
                        Some(IF IsSome(l.stacks)
                             THEN RStackFrames(FramesBetween(stack, s, c),
                                               U32Of(Len(stack)))
                             ELSE RStackFrames(<<>>, U32Of(0)))

\* C10: a Scopes request for a valid frame of the captured stack is answered
\* with arguments = Some iff the frame has an argument, locals = Some iff
\* it has a local, and globals = Some; outside a pause, or for a frame_id
\* that is no index of the stack, with three None.
C10_Scopes ==
    (IsSome(last) /\ Unwrap(last).request.type = "Scopes")
        => LET l == Unwrap(last)
               f == l.request.frame_id
               active == Unwrap(l.stacks).active
               r == Unwrap(l.response)
           IN /\ ~l.panic
              /\ IsSome(l.response)
              /\ r.type = "Scopes"
              /\ IF IsSome(l.stacks) /\ f < Len(active)
                 THEN /\ IsSome(r.arguments) <=> active[f + 1].args /= <<>>
                      /\ IsSome(r.locals) <=> active[f + 1].locals /= <<>>
                      /\ IsSome(r.globals)
                 ELSE r.arguments = None /\ r.locals = None /\ r.globals = None

\* Scopes for a frame with one argument and no locals, answered with
\* arguments and globals and without locals
C10_Witness ==
    /\ IsSome(last)
    /\ Unwrap(last).request = Scopes(1)
    /\ IsSome(Unwrap(last).stacks)
    /\ Len(Unwrap(Unwrap(last).stacks).active) > 1
    /\ Unwrap(Unwrap(last).stacks).active[2].locals = <<>>
    /\ Unwrap(Unwrap(last).stacks).active[2].args /= <<>>
    /\ Unwrap(last).response = Some(RScopes(Some(VarsArguments(1)), None, Some(VarsGlobals)))

\* C11: a BreakpointSet for a proc the VM cannot resolve is answered Failed
\* without a call of hook_instruction; for a proc it resolves,
\* hook_instruction is called exactly once, with the request's proc and
\* offset, and the answer is Success with the line of the offset if the
\* call succeeded and Failed if it failed.
C11_BreakpointSet ==
    (IsSome(last) /\ Unwrap(last).request.type = "BreakpointSet")
        => LET l == Unwrap(last)
               r == l.request
           IN /\ ~l.panic
              /\ IF r.proc \notin DOMAIN dism
                 THEN /\ l.calls = <<>>
                      /\ l.response = Some(RBreakpointSet(Failed))
                 ELSE /\ Len(l.calls) = 1
                      /\ l.calls[1].fn = "hook_instruction"
                      /\ l.calls[1].proc = r.proc
                      /\ l.calls[1].offset = r.offset
                      /\ l.response =
                           Some(RBreakpointSet(
                               IF l.calls[1].result = "Ok"
                               THEN Success(get_line_number(r.proc, r.offset))
                               ELSE Failed))

\* a breakpoint set at offset 2 of /proc/a, line 10: hooked once, answered
\* Success, and the answer written to the client
C11_Witness ==
    /\ IsSome(last)
    /\ Unwrap(last).request = BreakpointSet(ProcRef("/proc/a", 0), 2)
    /\ Unwrap(last).calls =
          <<HookCall("hook_instruction", ProcRef("/proc/a", 0), 2, "Ok")>>
    /\ out /= <<>>
    /\ out[Len(out)] = RBreakpointSet(Success(Some(10)))

\* the line that annotations at o1 < o2 < ... give offset x of disassembly
\* dis: None if x is the offset of no instruction or precedes every
\* annotation, else the line of the last annotation at or before x
LineAt(dis, x) ==
    LET annotated == {i \in 1..Len(dis) : IsSome(dis[i].dbg_line) /\ dis[i].offset <= x}
    IN IF (\A i \in 1..Len(dis) : dis[i].offset /= x) \/ annotated = {}
       THEN None
       ELSE dis[CHOOSE i \in annotated : \A j \in annotated : j <= i].dbg_line

\* C12: the line resolved for offset x of a proc is l_i for every
\* instruction offset x with o_i <= x < o_(i+1), the annotations being at
\* o_1 < o_2 < ... with lines l_1, l_2, ...; it is None for an x before the
\* first annotation, for an x that is the offset of no instruction, and for
\* a proc the VM cannot resolve.
C12_LineForOffset ==
    (IsSome(last) /\ Unwrap(last).request.type = "LineNumber")
        => LET l == Unwrap(last)
               r == l.request
           IN /\ ~l.panic
              /\ l.response =
                    Some(RLineNumber(IF r.proc \in DOMAIN dism
                                     THEN LineAt(dism[r.proc], r.offset)
                                     ELSE None))

\* offset 4 of <<DbgLine 10, plain, plain>>: line 10, two instructions
\* after the annotation
C12_Witness ==
    /\ IsSome(last)
    /\ Unwrap(last).request = LineNumber(ProcRef("/proc/a", 0), 4)
    /\ dism[ProcRef("/proc/a", 0)] = Disassembly(<<Some(10), None, None>>)
    /\ out = <<RLineNumber(Some(10))>>

\* the indices of the annotations of line L in dis
AnnotationsOf(dis, L) == {i \in 1..Len(dis) : dis[i].dbg_line = Some(L)}

\* i is an annotation of the line that Offset request r asked for, the
\* answer to r was `response`, and the round trip through that answer gives
\* the line of the instruction after i
RoundTripAt(r, response, i) ==
    LET dis == dism[r.proc]
        offset == Unwrap(response).offset
    IN i < Len(dis)
         => /\ IsSome(offset)
            /\ get_line_number(r.proc, Unwrap(offset))
                  = get_line_number(r.proc, dis[i + 1].offset)

\* C13: for every line L and every annotation of L that is followed by an
\* instruction at offset X, the line resolved for the offset that the Offset
\* query returns for L is the line resolved for X.
C13_RoundTrip ==
    (IsSome(last) /\ Unwrap(last).request.type = "Offset"
     /\ Unwrap(last).request.proc \in DOMAIN dism)
        => LET l == Unwrap(last)
           IN \A i \in AnnotationsOf(dism[l.request.proc], l.request.line) :
                 RoundTripAt(l.request, l.response, i)

\* C13 as amended: for every line L whose first annotation is followed by an
\* instruction at offset X, the line resolved for the offset that the Offset
\* query returns for L is the line resolved for X.
C13_RoundTripFirst ==
    (IsSome(last) /\ Unwrap(last).request.type = "Offset"
     /\ Unwrap(last).request.proc \in DOMAIN dism)
        => LET l == Unwrap(last)
               annotations == AnnotationsOf(dism[l.request.proc], l.request.line)
           IN \A i \in annotations :
                 (\A j \in annotations : i <= j)
                    => RoundTripAt(l.request, l.response, i)

\* line 10 annotated twice, the first annotation followed by the second and
\* the second by an annotation of line 11: Offset answers with the offset
\* after the first, which resolves to line 10
C13_Witness ==
    /\ IsSome(last)
    /\ Unwrap(last).request = Offset(ProcRef("/proc/a", 0), 10)
    /\ dism[ProcRef("/proc/a", 0)] = Disassembly(<<Some(10), Some(10), Some(11)>>)
    /\ out = <<ROffset(Some(2))>>

\* the bytes of the segments segs and of their delimiters
RECURSIVE BytesOf(_)
BytesOf(segs) == IF segs = <<>> THEN 0 ELSE Len(Head(segs)) + 1 + BytesOf(Tail(segs))

\* C14: in the whole life of the process the connection thread calls accept
\* at most once and sends at most one write handle, and the Server installs
\* a stream at most once; a thread whose hand-off failed has ended, and has
\* read nothing of what the client wrote.
C14_OneConnection ==
    /\ accepts <= 1
    /\ handed <= 1
    /\ installs <= handed
    /\ exit_reason = "handoff"
         => /\ t_pc = "done"
            /\ handed = 0
            /\ installs = 0
            /\ forwarded = <<>>
            /\ queued_data = <<>>
            /\ Len(wire) = BytesOf(sent)

\* the Server was dropped before the hand-off: the thread has ended on the
\* failed send, and the request the client wrote is still unread
C14_Witness ==
    /\ accepts = 1
    /\ exit_reason = "handoff"
    /\ t_pc = "done"
    /\ sent /= <<>>
    /\ Len(wire) = BytesOf(sent)

\* the Server had a session and a failed write has ended it
SessionLost == installs > 0 /\ stream = "None"

\* C15: a write that fails sets Server.stream to None; from then on it stays
\* None, no response is written and no write is attempted, a call of
\* process() returns at once, no step panics unless its request is one that
\* panics with a session too (StackFrames), and handle_breakpoint still
\* takes every request that is queued.
C15_LostSessionStaysLost ==
    /\ [][/\ (attempts' /= attempts /\ out' = out) => stream' = "None"
          /\ SessionLost =>
                /\ stream' = "None"
                /\ out' = out
                /\ attempts' = attempts
                /\ vm_pc = "idle" => vm_pc' /= "process"
                /\ (panicked' /\ ~panicked)
                      => Unwrap(last').request.type = "StackFrames"]_vars
    /\ []((SessionLost /\ vm_pc = "breakpoint" /\ ~panicked /\ requests /= <<>>)
            => ENABLED BreakpointRecv)

\* the write of BreakpointHit failed, and a Scopes request handled in that
\* pause got no write attempt
C15_Witness ==
    /\ SessionLost
    /\ vm_pc = "breakpoint"
    /\ attempts = 1
    /\ out = <<>>
    /\ call_handled = <<Scopes(0)>>

\* C16: the step in which the connection thread ends, by a decode error, a
\* closed stream or a read error, changes nothing of the Server:
\* Server.stream and Server.stacks are what they were; and Server.stream
\* goes from Some to None only in a step of the main thread in which a
\* write was attempted and nothing was written.
C16_ThreadEndLeavesServer ==
    [][/\ (t_pc /= "done" /\ t_pc' = "done")
            => /\ stream' = stream
               /\ stacks' = stacks
               /\ serverVars' = serverVars
       /\ (stream = "Some" /\ stream' = "None")
            => /\ attempts' = attempts + 1
               /\ out' = out
               /\ threadVars' = threadVars]_vars

\* the thread ended on a decode error during a pause: the Server still has
\* its stream and its stacks
C16_Witness ==
    /\ t_pc = "done"
    /\ exit_reason = "decode"
    /\ stream = "Some"
    /\ vm_pc = "breakpoint"
    /\ IsSome(stacks)

\* the step gives the request at the head of the channel to handle_request
Handles == requests /= <<>> /\ call_handled' = Append(call_handled, Head(requests))

\* C17: while the session is live and writes succeed, a request given to
\* handle_request gets exactly one response, of its own kind, if it is a
\* BreakpointSet, BreakpointUnset, LineNumber, Offset, StackFrames, Scopes
\* or Variables, and none if it is a Continue or a Pause; responses are
\* written in the order of handling; and the only response that answers no
\* request is the BreakpointHit of a trap.
C17_OneResponsePerRequest ==
    [][(stream = "Some" /\ stream' = "Some")
         => /\ Handles
                 => IF Head(requests).type \in {"Continue", "Pause"}
                    THEN out' = out
                    ELSE /\ Len(out') = Len(out) + 1
                         /\ SubSeq(out', 1, Len(out)) = out
                         /\ out'[Len(out')].type = Head(requests).type
            /\ (out' /= out /\ ~Handles)
                 => /\ vm_pc = "idle"
                    /\ vm_pc' = "breakpoint"
                    /\ \E reason \in {"Breakpoint"} :
                          out' = Append(out, RBreakpointHit(reason))]_vars

\* C18: when handle_breakpoint is called after the thread has handed off the
\* write handle of a connected client, and no write has failed before, the
\* call writes one BreakpointHit to that client on entry, before it takes
\* any request (or the write is attempted and fails): whether or not
\* process() was called between the hand-off and the trap.
C18_BreakpointHitWritten ==
    [][(vm_pc = "idle" /\ vm_pc' = "breakpoint" /\ handed = 1 /\ ~SessionLost)
         => /\ attempts' = attempts + 1
            /\ \/ \E reason \in {"Breakpoint"} :
                     out' = Append(out, RBreakpointHit(reason))
               \/ out' = out /\ stream' = "None"
            /\ call_recv' = <<>>]_vars

\* C19: a Continue that process() takes off the channel and gives to
\* handle_request does nothing: no response is written or attempted,
\* Server.stacks and Server.stream stay as they are, should_pause is not
\* set by it, process() goes on with its loop, and the request is off the
\* channel, where no later pause will find it.
C19_ContinueOutsidePause ==
    [][(vm_pc = "process" /\ Handles /\ Head(requests).type = "Continue")
         => /\ out' = out
            /\ attempts' = attempts
            /\ stacks' = stacks
            /\ stream' = stream
            /\ should_pause' = should_pause
            /\ ~should_pause'
            /\ ~panicked'
            /\ vm_pc' = "process"
            /\ ret' = ret
            /\ requests' = Tail(requests)]_vars

\* the only request the client sent was a Continue, process() took it and
\* returned false, and the pause of the trap that followed is still on
C19_Witness ==
    /\ forwarded = <<Continue("StepOver")>>
    /\ requests = <<>>
    /\ traps = 1
    /\ vm_pc = "breakpoint"
    /\ call_recv = <<>>
    /\ ProcessReturned(FALSE)
    /\ t_pc = "loop"

IsSuffix(s, t) == Len(s) <= Len(t) /\ SubSeq(t, Len(t) - Len(s) + 1, Len(t)) = s

\* C20: the requests channel is one FIFO for process() and
\* handle_breakpoint: what is queued is always the last part of what was
\* forwarded, in order; the channel changes only by the thread appending
\* what it forwards and by the call that is running taking the head; a
\* trap leaves what is queued in place for its pause loop; and the step
\* that takes a Continue in the pause loop ends the pause and leaves all
\* that is queued behind it for the next call.
C20_SharedFifo ==
    /\ [](IsSuffix(requests, forwarded))
    /\ [][/\ requests' /= requests
              => \/ /\ IsPrefix(requests, requests')
                    /\ IsPrefix(forwarded, forwarded')
                    /\ SubSeq(requests', Len(requests) + 1, Len(requests'))
                         = SubSeq(forwarded', Len(forwarded) + 1, Len(forwarded'))
                    /\ serverVars' = serverVars
                 \/ /\ requests /= <<>>
                    /\ requests' = Tail(requests)
                    /\ vm_pc \in {"process", "breakpoint"}
                    /\ call_recv' = Append(call_recv, Head(requests))
                    /\ forwarded' = forwarded
          /\ (vm_pc = "idle" /\ vm_pc' = "breakpoint") => requests' = requests
          /\ (vm_pc = "breakpoint" /\ requests /= <<>>
              /\ call_recv' = Append(call_recv, Head(requests))
              /\ Head(requests).type = "Continue")
              => /\ vm_pc' = "idle"
                 /\ requests' = Tail(requests)]_vars

\* a pause that a Continue ended while the Pause forwarded after it stays
\* queued for the next call
C20_Witness ==
    /\ vm_pc = "idle"
    /\ BreakpointReturned("StepOver")
    /\ call_recv = <<Continue("StepOver")>>
    /\ forwarded = <<Continue("StepOver"), Pause>>
    /\ requests = <<Pause>>

====
